---- MODULE Spec2Model ----
(***************************************************************************)
(* Model of scripts/session_digest.py: the event-log parser                *)
(* (parse_session), the digest renderer (generate_digest) and the          *)
(* selector / writer (process_date).                                       *)
(*                                                                         *)
(* Text is a sequence of one-character strings.  An instant is a number of *)
(* seconds since 2024-03-13T00:00:00Z, a calendar date the number of whole *)
(* days since 2024-03-13.                                                  *)
(***************************************************************************)
EXTENDS Integers, Sequences, FiniteSets, TLC

\* ------------------------------------------------------------------------
\* Bounds of the model
\* ------------------------------------------------------------------------
MaxLines == 3
MaxFiles == 2
MaxRuns == 2

\* ------------------------------------------------------------------------
\* Strings
\* ------------------------------------------------------------------------
\* The one element of a singleton.  Only({e(x) : x \in {v}}) is e(v) with v
\* evaluated once and bound to x, as a local variable of the code is.
Only(S) == CHOOSE x \in S : TRUE

WS == {" ", "\n", "\t"}

IsSpace(c) == c \in WS

Upper == <<"A","B","C","D","E","F","G","H","I","J","K","L","M",
           "N","O","P","Q","R","S","T","U","V","W","X","Y","Z">>

LowerCase == <<"a","b","c","d","e","f","g","h","i","j","k","l","m",
               "n","o","p","q","r","s","t","u","v","w","x","y","z">>

\* str.lower()
lower(s) ==
  [i \in 1..Len(s) |->
     IF \E k \in 1..26 : Upper[k] = s[i]
     THEN LowerCase[CHOOSE k \in 1..26 : Upper[k] = s[i]]
     ELSE s[i]]

\* str.startswith(p)
startswith(s, p) == Len(s) >= Len(p) /\ SubSeq(s, 1, Len(p)) = p

\* the substring test  needle in s
Contains(s, needle) ==
  \E i \in 1..(Len(s) - Len(needle) + 1) :
     SubSeq(s, i, i + Len(needle) - 1) = needle

\* length of the longest run of blanks (space = TRUE) or of non-blanks
\* (space = FALSE) that starts at index from
RunLen(s, from, space) ==
  CHOOSE n \in 0..(IF from > Len(s) THEN 0 ELSE Len(s) - from + 1) :
     /\ \A j \in from..(from + n - 1) : IsSpace(s[j]) = space
     /\ (from + n > Len(s) \/ IsSpace(s[from + n]) # space)

\* length of the run of blanks that ends the string
TrailLen(s) ==
  CHOOSE n \in 0..Len(s) :
     /\ \A j \in (Len(s) - n + 1)..Len(s) : IsSpace(s[j])
     /\ (n = Len(s) \/ ~IsSpace(s[Len(s) - n]))

\* str.strip()
strip(s) ==
  Only({ IF a = Len(s) THEN <<>> ELSE SubSeq(s, a + 1, Len(s) - TrailLen(s))
         : a \in {RunLen(s, 1, TRUE)} })

\* sep.join(parts)
RECURSIVE join(_, _)
join(sep, parts) ==
  IF parts = <<>> THEN <<>>
  ELSE IF Len(parts) = 1 THEN parts[1]
  ELSE parts[1] \o sep \o join(sep, Tail(parts))

\* ------------------------------------------------------------------------
\* The cron marker  \[cron:\S+\s+(.+?)\]
\* ------------------------------------------------------------------------
CronPrefix == <<"[","c","r","o","n",":">>

NoMatch == [ok |-> FALSE, start |-> 0, stop |-> 0, name |-> <<>>]

Min(I) == CHOOSE i \in I : \A j \in I : i <= j

Max(I) == CHOOSE i \in I : \A j \in I : i >= j

\* The match that begins at index i, given the length K of the run of
\* non-blanks after "[cron:" and the length W of the run of blanks after
\* it, as the backtracking matcher finds it: \S+ takes the whole run of
\* non-blanks, \s+ as many blanks as still allow a match, (.+?) as few
\* characters (none of them a newline) as possible before a "]".
CronMatchRuns(text, i, K, W) ==
  IF K < 1 \/ W < 1 THEN NoMatch
  ELSE
    Only({ IF cand = {} THEN NoMatch
           ELSE LET w == Max({wn[1] : wn \in cand})
                    n == Min({wn[2] : wn \in {c \in cand : c[1] = w}})
                    p == i + 6 + K + w
                IN  [ok |-> TRUE, start |-> i, stop |-> p + n,
                     name |-> SubSeq(text, p, p + n - 1)]
           : cand \in
               { {wn \in (1..W) \X (1..Len(text)) :
                    /\ i + 6 + K + wn[1] + wn[2] <= Len(text)
                    /\ text[i + 6 + K + wn[1] + wn[2]] = "]"
                    /\ \A j \in (i + 6 + K + wn[1])
                                ..(i + 6 + K + wn[1] + wn[2] - 1) :
                          text[j] # "\n"} } })

\* The match of the marker pattern that begins at index i, if there is one
CronMatchAt(text, i) ==
  IF ~(i + 5 <= Len(text) /\ SubSeq(text, i, i + 5) = CronPrefix) THEN NoMatch
  ELSE Only({ Only({ CronMatchRuns(text, i, K, W)
                     : W \in {RunLen(text, i + 6 + K, TRUE)} })
              : K \in {RunLen(text, i + 6, FALSE)} })

\* re.search(r"\[cron:\S+\s+(.+?)\]", text): the leftmost match
CronSearch(text) ==
  Only({ IF hits = {} THEN NoMatch ELSE CronMatchAt(text, Min(hits))
         : hits \in { {i \in 1..Len(text) : CronMatchAt(text, i).ok} } })

\* re.sub(r"\[cron:\S+\s+.+?\]\s*", "", text)
RECURSIVE CronSub(_)
CronSub(text) ==
  Only({ IF ~m.ok THEN text
         ELSE Only({ SubSeq(text, 1, m.start - 1) \o CronSub(rest)
                     : rest \in {SubSeq(text,
                                        m.stop + RunLen(text, m.stop + 1, TRUE) + 1,
                                        Len(text))} })
         : m \in {CronSearch(text)} })

\* ------------------------------------------------------------------------
\* JSON records of a session log
\* ------------------------------------------------------------------------
\* The value of a record's "timestamp" field:
\*   absent  the key is missing            empty   "" (or another falsy value)
\*   bad     a string that is no ISO time  nonstr  a truthy non-string (a number)
\*   iso     an ISO-8601 string with an offset; t is the instant it denotes
TsAbsent == [k |-> "absent", t |-> 0]
TsEmpty == [k |-> "empty", t |-> 0]
TsBad == [k |-> "bad", t |-> 0]
TsNonStr == [k |-> "nonstr", t |-> 0]
Iso(t) == [k |-> "iso", t |-> t]

\* The value of a "content" field: a string, a list of fragments, or other
ContentStr(s) == [k |-> "str", s |-> s, frags |-> <<>>]
ContentList(frags) == [k |-> "list", s |-> <<>>, frags |-> frags]
ContentOther == [k |-> "other", s |-> <<>>, frags |-> <<>>]
Frag(type, text) == [isdict |-> TRUE, type |-> type, text |-> text]
FragNonDict == [isdict |-> FALSE, type |-> "", text |-> <<>>]

\* The value of a "message" field: missing, a JSON object, or not an object
MsgAbsent == [k |-> "absent", role |-> "", content |-> ContentStr(<<>>)]
MsgNonDict == [k |-> "nondict", role |-> "", content |-> ContentStr(<<>>)]
Msg(role, content) == [k |-> "dict", role |-> role, content |-> content]

\* One line of a log: blank, not JSON, JSON but not an object, or an object
LineOf(json) ==
  [json |-> json, type |-> "", timestamp |-> TsAbsent, id |-> "",
   modelId |-> "", message |-> MsgAbsent, name |-> ""]
BlankLine == LineOf("blank")
InvalidLine == LineOf("invalid")
NonObjectLine == LineOf("nonobject")
Rec(type, ts) == [LineOf("object") EXCEPT !.type = type, !.timestamp = ts]
SessionRec(ts, id) == [Rec("session", ts) EXCEPT !.id = id]
ModelRec(ts, modelId) == [Rec("model_change", ts) EXCEPT !.modelId = modelId]
MessageRec(ts, message) == [Rec("message", ts) EXCEPT !.message = message]
ToolRec(ts, name) == [Rec("tool_use", ts) EXCEPT !.name = name]

\* ------------------------------------------------------------------------
\* parse_session
\* ------------------------------------------------------------------------
None == -1

NewSession ==
  [id |-> "", start_time |-> None, end_time |-> None, model |-> "",
   messages |-> <<>>, tools_used |-> <<>>, is_cron |-> FALSE,
   cron_name |-> <<>>]

\* Lines 104-106: the text fragments of a list, joined by blanks
JoinTexts(frags) ==
  Only({ join(<<" ">>, [i \in 1..Len(texts) |-> texts[i].text])
         : texts \in {SelectSeq(frags, LAMBDA c : c.isdict /\ c.type = "text")} })

_extract_text(content) ==
  IF content.k = "str" THEN strip(content.s)
  ELSE IF content.k = "list"
  THEN Only({ strip(joined) : joined \in {JoinTexts(content.frags)} })
  ELSE <<>>

\* UpdateTimes without the test for an unset start_time
UpdateTimes_overwrite(s, timestamp) ==
  IF timestamp.k = "iso"
  THEN [s EXCEPT !.start_time = timestamp.t, !.end_time = timestamp.t]
  ELSE s

\* Lines 66-73: the timestamp bookkeeping of one record (the caller has
\* dealt with a timestamp that is not a string).
UpdateTimes(s, timestamp) ==
  IF timestamp.k = "iso"
  THEN [s EXCEPT !.start_time = IF @ = None THEN timestamp.t ELSE @,
                 !.end_time = timestamp.t]
  ELSE s

\* Lines 84-88: the cron detection on the text of one message
UpdateCron(s, role, text) ==
  IF role = "user" /\ Contains(text, CronPrefix)
  THEN Only({ [s EXCEPT !.is_cron = TRUE,
                          !.cron_name = IF m.ok THEN m.name ELSE @]
              : m \in {CronSearch(text)} })
  ELSE s

\* The body of the loop of parse_session for one line.  The result is the
\* session after the line and whether the line made parse_session raise.
ParseLine(s, line) ==
  IF line.json \in {"blank", "invalid"}
  THEN [session |-> s, raised |-> FALSE]
  ELSE IF line.json # "object"
  THEN [session |-> s, raised |-> TRUE]
  ELSE
    LET timestamp == line.timestamp
        truthy == timestamp.k \in {"bad", "nonstr", "iso"}
        s1 == IF truthy THEN UpdateTimes(s, timestamp) ELSE s
    IN
    IF truthy /\ timestamp.k = "nonstr"
    THEN [session |-> s, raised |-> TRUE]
    ELSE IF line.type = "session"
    THEN [session |-> [s1 EXCEPT !.id = line.id], raised |-> FALSE]
    ELSE IF line.type = "model_change"
    THEN [session |-> [s1 EXCEPT !.model = line.modelId], raised |-> FALSE]
    ELSE IF line.type = "message"
    THEN
      IF line.message.k = "nondict"
      THEN [session |-> s1, raised |-> TRUE]
      ELSE
        Only({ IF text # <<>>
               THEN [session |->
                       [UpdateCron(s1, line.message.role, text) EXCEPT
                          !.messages =
                            Append(@, [role |-> line.message.role,
                                       text |-> text,
                                       timestamp |-> timestamp])],
                     raised |-> FALSE]
               ELSE [session |-> s1, raised |-> FALSE]
               : text \in {_extract_text(line.message.content)} })
    ELSE IF line.type = "tool_use"
    THEN [session |->
            IF line.name # "" /\ \A i \in 1..Len(s1.tools_used) :
                                    s1.tools_used[i] # line.name
            THEN [s1 EXCEPT !.tools_used = Append(@, line.name)]
            ELSE s1,
          raised |-> FALSE]
    ELSE [session |-> s1, raised |-> FALSE]

\* parse_session(jsonl_path): the fold of ParseLine over the lines of the file
RECURSIVE ParseFrom(_, _)
ParseFrom(acc, lines) ==
  IF acc.raised \/ lines = <<>> THEN acc
  ELSE Only({ ParseFrom(next, Tail(lines))
              : next \in {ParseLine(acc.session, Head(lines))} })

parse_session(lines) ==
  ParseFrom([session |-> NewSession, raised |-> FALSE], lines)

\* ------------------------------------------------------------------------
\* State
\* ------------------------------------------------------------------------
VARIABLES
  offset,      \* LOCAL_TZ: the configured offset from UTC, in hours
  log,         \* parse_session: the lines of the file being parsed
  pos,         \* parse_session: number of lines consumed
  session,     \* parse_session: the session dict
  pstate,      \* parse_session: "reading", "returned" or "raised"
  files,       \* SESSIONS_DIR: the *.jsonl files, each [mtime, lines]
  target,      \* process_date: the target date
  pending,     \* process_date: files the glob has not yielded yet
  sessions,    \* process_date: the list of kept sessions
  pc,          \* process_date: "scan", "done" or "raised"
  run,         \* number of the current invocation of process_date
  digestDir,   \* whether DIGEST_DIR exists
  digestFile,  \* content of DIGEST_DIR/<target>.md, NoFile if absent
  msg,         \* generate_digest: the message rendered
  block        \* generate_digest: the rendered block

vars == <<offset, log, pos, session, pstate, files, target, pending,
          sessions, pc, run, digestDir, digestFile, msg, block>>

parseVars == <<log, pos, session, pstate>>
procVars == <<files, target, pending, sessions, pc, run, digestDir, digestFile>>
renderVars == <<msg, block>>

\* ------------------------------------------------------------------------
\* Time
\* ------------------------------------------------------------------------
Hour == 3600
Day == 86400

\* _TZ_OFFSETS: the offsets LOCAL_TZ can take (0 also when no config exists)
TZ_OFFSETS == {8, 9, -5, -8, 0, 1}

\* LocalDate without the conversion to LOCAL_TZ: the UTC date
LocalDate_utc(t) == t \div Day

\* dt.astimezone(LOCAL_TZ).date()
LocalDate(t) == (t + offset * Hour) \div Day

\* dt.astimezone(LOCAL_TZ).strftime("%H:%M")
Digits == <<"0","1","2","3","4","5","6","7","8","9">>

RECURSIVE Str(_)
Str(n) == IF n < 10 THEN <<Digits[n + 1]>>
          ELSE Str(n \div 10) \o <<Digits[(n % 10) + 1]>>

TwoDigits(n) == <<Digits[(n \div 10) + 1], Digits[(n % 10) + 1]>>

LocalHHMM(t) ==
  LET secs == (t + offset * Hour) % Day
  IN  TwoDigits(secs \div Hour) \o <<":">> \o TwoDigits((secs % Hour) \div 60)

\* ------------------------------------------------------------------------
\* generate_digest
\* ------------------------------------------------------------------------
TruncLimit == 500
ToolCap == 10

Ellipsis == "..."

\* Lines 124-127: the text of one message as it is emitted
RenderText(text) ==
  Only({ CronSub(cut)
         : cut \in { IF Len(text) > TruncLimit
                     THEN SubSeq(text, 1, TruncLimit) \o <<Ellipsis>>
                     ELSE text } })

\* Lines 123-133: the lines one message contributes
RenderMessage(m) ==
  Only({ (IF m.role = "user" THEN << <<"**User**: ">> \o text >>
          ELSE IF m.role = "assistant" /\ text # <<>>
                  /\ ~startswith(text, <<"<">>)
          THEN << <<"**Assistant**: ">> \o text >>
          ELSE <<>>)
         \o << <<>> >>
         : text \in {RenderText(m.text)} })

RECURSIVE Flatten(_)
Flatten(ss) == IF ss = <<>> THEN <<>> ELSE Head(ss) \o Flatten(Tail(ss))

generate_digest(s) ==
  LET start == s.start_time
      time_str == IF start # None THEN LocalHHMM(start) ELSE <<"??:??">>
      kind == IF s.is_cron THEN "Cron" ELSE "Chat"
      title == IF s.is_cron THEN s.cron_name ELSE <<"Session">>
      tools == SubSeq(s.tools_used, 1,
                      IF Len(s.tools_used) < ToolCap THEN Len(s.tools_used)
                      ELSE ToolCap)
      head ==
        << <<"### ">> \o time_str \o <<" ", kind, ": ">> \o title,
           <<"- **Model**: ", s.model>> >>
        \o (IF s.tools_used # <<>>
            THEN << <<"- **Tools**: ">>
                    \o join(<<", ">>, [i \in 1..Len(tools) |-> <<tools[i]>>]) >>
            ELSE <<>>)
        \o << <<>> >>
      body == Flatten([i \in 1..Len(s.messages) |-> RenderMessage(s.messages[i])])
  IN  Only({ join(<<"\n">>, lines) : lines \in {head \o body} })

\* ------------------------------------------------------------------------
\* process_date
\* ------------------------------------------------------------------------
NoFile == <<"(no file)">>

\* Lines 139-141
target_start_utc == target * Day - offset * Hour

target_end_utc == target_start_utc + 23 * Hour + 59 * 60 + 59

\* Line 146: the modification-time pre-filter
MtimeSkipped(mtime) ==
  mtime < target_start_utc - Day \/ mtime > target_end_utc + Day

HEARTBEAT_OK == <<"H","E","A","R","T","B","E","A","T","_","O","K">>
NO_REPLY == <<"N","O","_","R","E","P","L","Y">>
heartbeat == <<"h","e","a","r","t","b","e","a","t">>

\* Line 158
is_hb(s) ==
  s.is_cron /\ \E name \in {lower(s.cron_name)} : Contains(name, heartbeat)

\* has_substance with the NO_REPLY sentinel left out
has_substance_one_sentinel(s) ==
  \E i \in 1..Len(s.messages) :
     LET m == s.messages[i]
     IN  /\ m.role = "assistant"
         /\ m.text # <<>>
         /\ m.text \notin {HEARTBEAT_OK, <<>>}
         /\ ~startswith(m.text, <<"<">>)

\* Lines 159-164
has_substance(s) ==
  \E i \in 1..Len(s.messages) :
     LET m == s.messages[i]
     IN  /\ m.role = "assistant"
         /\ m.text # <<>>
         /\ m.text \notin {HEARTBEAT_OK, NO_REPLY, <<>>}
         /\ ~startswith(m.text, <<"<">>)

\* Line 154
TooShort(s) == Len(s.messages) < 2

\* Lines 145-168: the body of the loop for one file; what becomes of it
Select(f) ==
  IF MtimeSkipped(f.mtime) THEN [outcome |-> "skip", s |-> NewSession]
  ELSE
    Only({ IF r.raised THEN [outcome |-> "raise", s |-> NewSession]
           ELSE IF r.session.start_time = None
           THEN [outcome |-> "skip", s |-> r.session]
           ELSE IF LocalDate(r.session.start_time) # target
           THEN [outcome |-> "skip", s |-> r.session]
           ELSE IF TooShort(r.session)
           THEN [outcome |-> "skip", s |-> r.session]
           ELSE IF is_hb(r.session) /\ ~has_substance(r.session)
           THEN [outcome |-> "skip", s |-> r.session]
           ELSE [outcome |-> "keep", s |-> r.session]
           : r \in {parse_session(f.lines)} })

\* Line 170: list.sort is stable; every kept session has a start_time
RECURSIVE SortByStart(_)
SortByStart(ss) ==
  IF ss = <<>> THEN <<>>
  ELSE
    Only({ LET x == ss[Len(ss)]
               n == Cardinality({i \in 1..Len(front) :
                                   front[i].start_time <= x.start_time})
           IN  SubSeq(front, 1, n) \o <<x>> \o SubSeq(front, n + 1, Len(front))
           : front \in {SortByStart(SubSeq(ss, 1, Len(ss) - 1))} })

\* sorted(all_tools): the tool names of the model in ascending order
ToolNames == <<"bash", "read">>

sorted_tools(all_tools) == SelectSeq(ToolNames, LAMBDA n : n \in all_tools)

RECURSIVE total_msgs(_)
total_msgs(ss) ==
  IF ss = <<>> THEN 0 ELSE Len(Head(ss).messages) + total_msgs(Tail(ss))

\* the target date as YYYY-MM-DD
DateStr(d) == <<"2024-03-">> \o Str(13 + d)

\* Lines 179-201: the content written to the digest file
DigestContent(ss) ==
  LET cron_count == Cardinality({i \in 1..Len(ss) : ss[i].is_cron})
      chat_count == Len(ss) - cron_count
      all_tools == UNION {{ss[i].tools_used[j] : j \in 1..Len(ss[i].tools_used)}
                            : i \in 1..Len(ss)}
      tools == sorted_tools(all_tools)
      head ==
        << <<"# Session Digest: ">> \o DateStr(target), <<>>,
           Str(Len(ss)) \o <<" sessions">>, <<>>,
           <<"## Stats">>,
           <<"- Chat: ">> \o Str(chat_count) \o <<" | Cron: ">> \o Str(cron_count),
           <<"- Messages: ">> \o Str(total_msgs(ss)) >>
        \o (IF all_tools # {}
            THEN << <<"- Tools: ">>
                    \o join(<<", ">>, [i \in 1..Len(tools) |-> <<tools[i]>>]) >>
            ELSE <<>>)
        \o << <<>>, <<"## Sessions">>, <<>> >>
      body == Flatten([i \in 1..Len(ss) |->
                         << generate_digest(ss[i]), <<"---">>, <<>> >>])
  IN  Only({ join(<<"\n">>, lines) : lines \in {head \o body} })

\* One iteration of the loop over SESSIONS_DIR.glob("*.jsonl"): the glob
\* yields the files in an order the program does not control.
ScanFile ==
  /\ pc = "scan"
  /\ \E f \in pending :
       \E r \in {Select(f)} :
          /\ pending' = pending \ {f}
          /\ pc' = IF r.outcome = "raise" THEN "raised" ELSE "scan"
          /\ sessions' = IF r.outcome = "keep" THEN Append(sessions, r.s)
                         ELSE sessions
  /\ UNCHANGED <<offset, files, target, run, digestDir, digestFile>>
  /\ UNCHANGED parseVars
  /\ UNCHANGED renderVars

\* Finish with the mkdir moved before the test for an empty list
Finish_mkdir_first ==
  /\ pc = "scan"
  /\ pending = {}
  /\ sessions' = SortByStart(sessions)
  /\ pc' = "done"
  /\ digestDir' = TRUE
  /\ digestFile' = IF sessions' = <<>> THEN digestFile
                   ELSE DigestContent(sessions')
  /\ UNCHANGED <<offset, files, target, pending, run>>
  /\ UNCHANGED parseVars
  /\ UNCHANGED renderVars

\* Lines 170-202: sort, then write the digest unless nothing was kept
Finish ==
  /\ pc = "scan"
  /\ pending = {}
  /\ sessions' = SortByStart(sessions)
  /\ pc' = "done"
  /\ IF sessions' = <<>>
     THEN UNCHANGED <<digestDir, digestFile>>
     ELSE /\ digestDir' = TRUE
          /\ digestFile' = DigestContent(sessions')
  /\ UNCHANGED <<offset, files, target, pending, run>>
  /\ UNCHANGED parseVars
  /\ UNCHANGED renderVars

\* process_date is invoked again for the same date over the same files
Rerun ==
  /\ pc \in {"done", "raised"}
  /\ run < MaxRuns
  /\ run' = run + 1
  /\ pc' = "scan"
  /\ pending' = files
  /\ sessions' = <<>>
  /\ UNCHANGED <<offset, files, target, digestDir, digestFile>>
  /\ UNCHANGED parseVars
  /\ UNCHANGED renderVars

\* ------------------------------------------------------------------------
\* parse_session, one line at a time
\* ------------------------------------------------------------------------
ParseStep ==
  /\ pstate = "reading"
  /\ pos < Len(log)
  /\ \E r \in {ParseLine(session, log[pos + 1])} :
        /\ session' = r.session
        /\ pstate' = IF r.raised THEN "raised" ELSE "reading"
  /\ pos' = pos + 1
  /\ UNCHANGED <<offset, log>>
  /\ UNCHANGED procVars
  /\ UNCHANGED renderVars

\* Line 97
ParseReturn ==
  /\ pstate = "reading"
  /\ pos = Len(log)
  /\ pstate' = "returned"
  /\ UNCHANGED <<offset, log, pos, session>>
  /\ UNCHANGED procVars
  /\ UNCHANGED renderVars

\* ------------------------------------------------------------------------
\* generate_digest on a session with one message
\* ------------------------------------------------------------------------
OneMessage(m) ==
  [NewSession EXCEPT !.start_time = 0, !.end_time = 0, !.messages = <<m>>]

Render ==
  /\ block = <<>>
  /\ block' = generate_digest(OneMessage(msg))
  /\ UNCHANGED <<offset, msg>>
  /\ UNCHANGED parseVars
  /\ UNCHANGED procVars

\* ------------------------------------------------------------------------
\* Sample texts, records and logs
\* ------------------------------------------------------------------------
Hi == <<"h","i">>
Ok == <<"o","k">>
Markup == <<"<","t",">">>
Alert == <<"D","i","s","k"," ","9","2","%">>
CronA == <<"[","c","r","o","n",":","a"," ","A","]"," ","x">>
CronB == <<"[","c","r","o","n",":","b"," ","B","]">>
CronOpen == <<"[","c","r","o","n",":","x">>
HbMarker == <<"[","c","r","o","n",":","j"," ",
              "H","e","a","r","t","b","e","a","t","]"," ","g","o">>

User(text) == Msg("user", ContentStr(text))
Assistant(text) == Msg("assistant", ContentStr(text))

\* instants used by the parser runs
T1 == 1 * 100
T2 == 2 * 100
T3 == 3 * 100

ParseLines ==
  { BlankLine, InvalidLine, NonObjectLine,
    SessionRec(Iso(T1), "s1"),
    ModelRec(TsBad, "m1"),
    ModelRec(Iso(T2), "m2"),
    MessageRec(Iso(T2), User(CronA)),
    MessageRec(TsAbsent, User(CronB)),
    MessageRec(TsEmpty, User(CronOpen)),
    MessageRec(Iso(T3),
               Msg("assistant",
                   ContentList(<<Frag("text", Ok), FragNonDict,
                                 Frag("image", Hi), Frag("text", Hi)>>))),
    MessageRec(TsNonStr, MsgAbsent),
    MessageRec(Iso(T3), MsgNonDict),
    ToolRec(Iso(T1), "bash"),
    Rec("unknown", Iso(T3)) }

\* 2024-03-15, the target date of every run
TargetDate == 15 - 13

\* 2024-03-14T15:59:59Z, 2024-03-14T16:30:00Z, 2024-03-15T09:00:00Z
Starts == {143999, 145800, 205200}

\* 2024-03-15T15:53:20Z: inside the window for every offset;
\* 2024-03-17T12:00:00Z: outside it for every offset
MtimeNear == 2 * Day + 57200
MtimeLate == 4 * Day + 12 * Hour

ChatLog(st) ==
  << InvalidLine, SessionRec(Iso(st), "s1"), ModelRec(TsAbsent, "m1"),
     MessageRec(Iso(st + 60), User(Hi)),
     MessageRec(Iso(st + 120), Assistant(Ok)),
     ToolRec(Iso(st + 180), "bash") >>

ShortLog(st) == << MessageRec(Iso(st), User(CronA)) >>

HbQuietLog(st) ==
  << MessageRec(Iso(st), User(HbMarker)),
     MessageRec(Iso(st + 60), Assistant(HEARTBEAT_OK)),
     MessageRec(Iso(st + 120), Assistant(Markup)) >>

HbNoReplyLog(st) ==
  << MessageRec(Iso(st), User(HbMarker)),
     MessageRec(Iso(st + 60), Assistant(NO_REPLY)) >>

HbAlertLog(st) ==
  << MessageRec(Iso(st), User(HbMarker)),
     MessageRec(Iso(st + 60), Assistant(HEARTBEAT_OK)),
     MessageRec(Iso(st + 120), Assistant(Alert)) >>

CronLog(st) ==
  << MessageRec(Iso(st), User(CronA)),
     MessageRec(Iso(st + 60), Assistant(NO_REPLY)),
     ToolRec(TsAbsent, "read") >>

CorruptLog(st) ==
  << SessionRec(Iso(st), "s1"), NonObjectLine,
     MessageRec(Iso(st + 60), User(Hi)),
     MessageRec(Iso(st + 120), Assistant(Ok)) >>

NoTimeLog ==
  << MessageRec(TsEmpty, User(Hi)), MessageRec(TsBad, Assistant(Ok)) >>

File(mtime, lines) == [mtime |-> mtime, lines |-> lines]

\* 2024-03-15T09:00:00Z is on the target date for every offset
SampleFiles ==
  UNION { { File(MtimeNear, ChatLog(st)), File(MtimeNear, ShortLog(st)),
            File(MtimeNear, HbQuietLog(st)), File(MtimeNear, HbNoReplyLog(st)),
            File(MtimeNear, HbAlertLog(st)), File(MtimeNear, CronLog(st)),
            File(MtimeNear, CorruptLog(st)) }
          : st \in Starts }
  \cup { File(MtimeNear, NoTimeLog), File(MtimeLate, ChatLog(205200)) }

\* the directories of at most n of the files of S
RECURSIVE Directories(_, _)
Directories(S, n) ==
  IF n = 0 THEN {{}}
  ELSE Only({ D \cup {d \cup {f} : d \in D, f \in S}
              : D \in {Directories(S, n - 1)} })

OldDigest == <<"(an earlier digest)">>

\* ------------------------------------------------------------------------
\* Specifications
\* ------------------------------------------------------------------------
ParseIdle ==
  /\ log = <<>>
  /\ pos = 0
  /\ session = NewSession
  /\ pstate = "returned"

ProcIdle ==
  /\ files = {}
  /\ target = TargetDate
  /\ pending = {}
  /\ sessions = <<>>
  /\ pc = "done"
  /\ run = MaxRuns
  /\ digestDir = FALSE
  /\ digestFile = NoFile

RenderIdle ==
  /\ msg = [role |-> "user", text |-> <<>>, timestamp |-> TsAbsent]
  /\ block = <<"(rendered)">>

\* process_date(target) over a directory of at most MaxFiles files
Init ==
  /\ offset \in TZ_OFFSETS
  /\ files \in Directories(SampleFiles, MaxFiles)
  /\ target = TargetDate
  /\ pending = files
  /\ sessions = <<>>
  /\ pc = "scan"
  /\ run = 1
  /\ \E old \in {NoFile, OldDigest} :
       /\ digestFile = old
       /\ digestDir = (old # NoFile)
  /\ ParseIdle
  /\ RenderIdle

Next == ScanFile \/ Finish

Spec == Init /\ [][Next]_vars

\* parse_session over a log of at most MaxLines lines
InitParse ==
  /\ offset = 0
  /\ log \in UNION {[1..n -> ParseLines] : n \in 0..MaxLines}
  /\ pos = 0
  /\ session = NewSession
  /\ pstate = "reading"
  /\ ProcIdle
  /\ RenderIdle

NextParse == ParseStep \/ ParseReturn

SpecParse == InitParse /\ [][NextParse]_vars

\* process_date run MaxRuns times over the same directory
NextRerun == ScanFile \/ Finish \/ Rerun

SpecRerun == Init /\ [][NextRerun]_vars

\* generate_digest on one message whose text is about TruncLimit long
Fill(n) == [i \in 1..n |-> "x"]

Marker == <<"[","c","r","o","n",":","a"," ","A","]"," ">>

RenderTexts ==
  { Fill(a) \o mk \o Fill(b) :
      a \in {0, 3, TruncLimit - 8, TruncLimit - 4},
      mk \in {<<>>, Marker},
      b \in {0, 5, TruncLimit - 10, TruncLimit - 5, TruncLimit, TruncLimit + 100} }

InitRender ==
  /\ offset \in {0, 8}
  /\ msg \in { [role |-> r, text |-> strip(t), timestamp |-> TsAbsent] :
               r \in {"user", "assistant"}, t \in RenderTexts \ {<<>>} }
  /\ block = <<>>
  /\ ParseIdle
  /\ ProcIdle

NextRender == Render

SpecRender == InitRender /\ [][NextRender]_vars

\* ------------------------------------------------------------------------
\* Properties
\* ------------------------------------------------------------------------
Parsed(f) == parse_session(f.lines)

Kept(f) == sessions' = Append(sessions, Parsed(f).session)

InList(x, ss) == \E i \in 1..Len(ss) : ss[i] = x

\* C1: process_date never raises, whatever the lines of the logs are, and
\* every file whose session qualifies is digested at the end of the run.
C1_FaultIsolation ==
  /\ pc # "raised"
  /\ pc = "done" =>
       \A f \in files : Select(f).outcome = "keep" => InList(Select(f).s, sessions)

\* C2: a session that reaches the Noise Classifier (file inside the mtime
\* window, parsed, start_time on the target date) is kept if and only if it
\* has at least 2 messages and is either no heartbeat candidate or has an
\* assistant message with non-empty text that is neither sentinel and does
\* not start with "<".
HeartbeatCandidate(s) ==
  /\ s.is_cron
  /\ \E i \in 1..Len(s.cron_name) :
       startswith(lower(SubSeq(s.cron_name, i, Len(s.cron_name))), heartbeat)

Substantive(s) ==
  \E i \in 1..Len(s.messages) :
     /\ s.messages[i].role = "assistant"
     /\ Len(s.messages[i].text) > 0
     /\ s.messages[i].text # HEARTBEAT_OK
     /\ s.messages[i].text # NO_REPLY
     /\ s.messages[i].text[1] # "<"

NoiseKeep(s) ==
  Len(s.messages) >= 2 /\ (~HeartbeatCandidate(s) \/ Substantive(s))

ReachesClassifier(f) ==
  /\ ~MtimeSkipped(f.mtime)
  /\ ~Parsed(f).raised
  /\ Parsed(f).session.start_time # None
  /\ LocalDate(Parsed(f).session.start_time) = target

C2_NoiseDecision ==
  [][\A f \in pending \ pending' :
       ReachesClassifier(f) => (Kept(f) <=> NoiseKeep(Parsed(f).session))]_vars

\* a run that dropped a quiet heartbeat and kept one with an alert
C2_Witness ==
  /\ pc = "done"
  /\ \E st \in Starts : File(MtimeNear, HbQuietLog(st)) \in files
                        /\ LocalDate(st) = target
  /\ \E st \in Starts : File(MtimeNear, HbAlertLog(st)) \in files
                        /\ LocalDate(st) = target
  /\ Len(sessions) = 1
  /\ HeartbeatCandidate(sessions[1])

\* C3: a session that reaches the date check and passes the Noise
\* Classifier is selected if and only if its start_time lies between local
\* midnight of the target date and the next local midnight.
OnLocalDate(t) ==
  /\ target * Day <= t + offset * Hour
  /\ t + offset * Hour < (target + 1) * Day

ReachesDateCheck(f) ==
  /\ ~MtimeSkipped(f.mtime)
  /\ ~Parsed(f).raised
  /\ Parsed(f).session.start_time # None

C3_LocalDateSelection ==
  [][\A f \in pending \ pending' :
       (ReachesDateCheck(f) /\ NoiseKeep(Parsed(f).session))
         => (Kept(f) <=> OnLocalDate(Parsed(f).session.start_time))]_vars

\* offset +8, target 2024-03-15: the log started at 2024-03-14T16:30:00Z was
\* selected, the one started at 2024-03-14T15:59:59Z was not
C3_Witness ==
  /\ offset = 8
  /\ pc = "done"
  /\ files = {File(MtimeNear, ChatLog(143999)), File(MtimeNear, ChatLog(145800))}
  /\ Len(sessions) = 1
  /\ sessions[1].start_time = 145800

\* C4: a second run of process_date over the same files writes the content
\* the first run wrote, whatever order the scan yields the files in.
C4_Idempotent ==
  [][(run > 1 /\ pc' = "done") => digestFile' = digestFile]_vars

\* C5: the digest directory and the digest file change only in the step
\* that finishes a run with at least one selected session.
C5_NoWriteWhenEmpty ==
  [][(pc' # "done" \/ sessions' = <<>>)
       => (digestDir' = digestDir /\ digestFile' = digestFile)]_vars

\* a finished run over a non-empty directory that selected nothing
C5_Witness ==
  /\ pc = "done"
  /\ files # {}
  /\ sessions = <<>>
  /\ ~digestDir
  /\ digestFile = NoFile

\* C6: the emitted text of a message is its text with the cron markers
\* removed first and then cut to TruncLimit characters plus the ellipsis.
StripThenTruncate(text) ==
  LET stripped == CronSub(text)
  IN  IF Len(stripped) > TruncLimit
      THEN SubSeq(stripped, 1, TruncLimit) \o <<Ellipsis>>
      ELSE stripped

C6_TruncateAfterStrip ==
  (block # <<>> /\ msg.role = "user") =>
    \E k \in 1..Len(block) :
       /\ block[k] = "**User**: "
       /\ SubSeq(block, k + 1, Len(block) - 1) = StripThenTruncate(msg.text)

\* C7: once cron_name is set, no later record changes it.
C7_CronNameSetOnce ==
  [][session.cron_name # <<>> => session'.cron_name = session.cron_name]_vars

\* C9 as stated: start_time is the timestamp of the first record consumed
\* that carried a timestamp field, end_time that of the last one, and
\* start_time is unset exactly when no record consumed carried the field.
Carriers ==
  {i \in 1..pos : log[i].json = "object" /\ log[i].timestamp.k # "absent"}

C9_AnyTimestampField ==
  pstate # "raised" =>
    /\ session.start_time = None <=> Carriers = {}
    /\ Carriers # {} =>
         /\ session.start_time = log[Min(Carriers)].timestamp.t
         /\ session.end_time = log[Max(Carriers)].timestamp.t

\* C9: start_time is the instant of the first record consumed whose
\* timestamp field parses as an ISO-8601 time, end_time that of the last
\* such record, for records of every type; both are unset exactly when no
\* record consumed had a timestamp that parses.
Parseable ==
  {i \in 1..pos : log[i].json = "object" /\ log[i].timestamp.k = "iso"}

C9_Timestamps ==
  /\ session.start_time =
       IF Parseable = {} THEN None ELSE log[Min(Parseable)].timestamp.t
  /\ session.end_time =
       IF Parseable = {} THEN None ELSE log[Max(Parseable)].timestamp.t

\* a parsed log in which a record with an unparseable timestamp came
\* first and two records of other types with different instants followed
C9_Witness ==
  /\ pstate = "returned"
  /\ pos = 3
  /\ log[1].timestamp.k = "bad"
  /\ log[2].type # "message"
  /\ session.start_time = log[2].timestamp.t
  /\ session.end_time = log[3].timestamp.t
  /\ session.end_time # session.start_time

\* C8: at the end of a run, every file whose session starts on the target
\* date and passes the Noise Classifier is in the selected list, whatever
\* its modification time.
C8_PrefilterLosesNothing ==
  pc = "done" =>
    \A f \in files :
       (/\ ~Parsed(f).raised
        /\ Parsed(f).session.start_time # None
        /\ OnLocalDate(Parsed(f).session.start_time)
        /\ NoiseKeep(Parsed(f).session))
         => InList(Parsed(f).session, sessions)

\* C10: is_cron holds exactly when a user message matched the marker
\* pattern, and then cron_name is not empty.
C10_CronIffMarker ==
  /\ session.is_cron <=>
       \E i \in 1..Len(session.messages) :
          /\ session.messages[i].role = "user"
          /\ CronSearch(session.messages[i].text).ok
  /\ session.is_cron => session.cron_name # <<>>

====
